---- MODULE Spec2Model ----
(***************************************************************************)
(* The linear operators of mri/reconstruct/linear.py: WaveletN (a named    *)
(* wavelet transform of the pysap backend) and WaveletUD2 (the undecimated *)
(* transform by filter convolution, optionally multichannel).              *)
(*                                                                         *)
(* Conventions.                                                            *)
(*  - An ndarray is a record [shape, re, im]: its shape and its elements   *)
(*    in row-major order, real and imaginary parts apart. A real array has *)
(*    im = 0 everywhere.                                                   *)
(*  - Python's None is the empty tuple and a value x that may be None is   *)
(*    <<x>> (None / Some).                                                 *)
(*  - The collaborators that are not in linear.py (the transform backend,  *)
(*    modopt's filters and convolution) are deterministic stand-ins that   *)
(*    keep what the operators rely on: the shapes they return, that the    *)
(*    result is a function of the data and of the filter bank, and that a  *)
(*    call may raise.                                                      *)
(***************************************************************************)
EXTENDS Integers, Sequences, FiniteSets, TLC

\* ------------------------------------------------------------------ bounds
MaxDim == 3        \* a spatial axis of an input array has MaxDim - 1 or MaxDim entries
MaxLead == 2       \* the leading axis of a two-axis input has MaxLead entries
MaxNormDim == 2    \* an axis of an l2norm shape is MaxNormDim - 1 or MaxNormDim
MaxScale == 2      \* nb_scale of the operators
MaxThreadCalls == 2 \* calls each concurrent caller makes

None == << >>
Some(x) == << x >>

\* ------------------------------------------------------------------ arrays
RECURSIVE Prod(_)
Prod(s) == IF s = << >> THEN 1 ELSE Head(s) * Prod(Tail(s))

Zeros(n) == [i \in 1..n |-> 0]

\* The input array of a shape, complex valued.
MkArray(shape) ==
    [shape |-> shape,
     re |-> [i \in 1..Prod(shape) |-> (i + 1) % 3],
     im |-> [i \in 1..Prod(shape) |-> i % 2]]

\* Shapes of one and of two axes. An l2norm shape holds odd and even numbers,
\* on either axis when it has two.
Dims == (MaxDim - 1)..MaxDim
NormDims == (MaxNormDim - 1)..MaxNormDim
DataShapes == {<<d>> : d \in Dims} \cup {<<MaxLead, d>> : d \in Dims}
NormShapes ==
    {<<d>> : d \in NormDims}
        \cup ({<<c, d>> : c \in NormDims, d \in NormDims} \ {<<d, d>> : d \in NormDims})
Inputs == {MkArray(s) : s \in DataShapes}

\* data.real and data.imag
Real(a) == [shape |-> a.shape, re |-> a.re, im |-> Zeros(Len(a.re))]
Imag(a) == [shape |-> a.shape, re |-> a.im, im |-> Zeros(Len(a.im))]
\* x + 1j * y, element by element
AddJ(x, y) ==
    [shape |-> x.shape,
     re |-> [i \in 1..Len(x.re) |-> x.re[i] - y.im[i]],
     im |-> [i \in 1..Len(x.im) |-> x.im[i] + y.re[i]]]

\* ------------------------------------------------- flatten / unflatten
RECURSIVE ConcatRe(_)
ConcatRe(bundle) ==
    IF bundle = << >> THEN << >> ELSE Head(bundle).re \o ConcatRe(Tail(bundle))
RECURSIVE ConcatIm(_)
ConcatIm(bundle) ==
    IF bundle = << >> THEN << >> ELSE Head(bundle).im \o ConcatIm(Tail(bundle))

\* flatten(bundle) -> (vector, descriptor): every leaf's elements in order in
\* one vector, and the leaves' shapes in the same order.
Flatten(bundle) ==
    [vec |-> [shape |-> <<Len(ConcatRe(bundle))>>,
              re |-> ConcatRe(bundle), im |-> ConcatIm(bundle)],
     shape |-> [k \in 1..Len(bundle) |-> bundle[k].shape]]

RECURSIVE SumProd(_)
SumProd(desc) == IF desc = << >> THEN 0 ELSE Prod(Head(desc)) + SumProd(Tail(desc))

Offset(desc, k) == SumProd(SubSeq(desc, 1, k - 1))

\* unflatten(vector, descriptor) -> bundle: the vector cut at the leaves' sizes
\* and each slice given its recorded shape; it fails when the vector's length is
\* not the sum of the leaf sizes.
Unflatten(vec, desc) ==
    IF Len(vec.re) # SumProd(desc)
    THEN [err |-> "ShapeMismatchError", val |-> << >>]
    ELSE [err |-> "",
          val |-> [k \in 1..Len(desc) |->
                     [shape |-> desc[k],
                      re |-> SubSeq(vec.re, Offset(desc, k) + 1,
                                    Offset(desc, k) + Prod(desc[k])),
                      im |-> SubSeq(vec.im, Offset(desc, k) + 1,
                                    Offset(desc, k) + Prod(desc[k]))]]]

\* ------------------------------------------------ the transform backend
\* pysap.AVAILABLE_TRANSFORMS, and the names a caller may ask for.
AVAILABLE_TRANSFORMS == {"haar", "db4"}
WaveletNames == AVAILABLE_TRANSFORMS \cup {"nosuch"}

\* transform.analysis(): nb_scale bands, band s decimated by s along every axis.
BandShape(shape, s) == [a \in 1..Len(shape) |-> (shape[a] + s - 1) \div s]
Band(data, s) ==
    [shape |-> BandShape(data.shape, s),
     re |-> [j \in 1..Prod(BandShape(data.shape, s)) |->
               data.re[((j - 1) % Len(data.re)) + 1] + s],
     im |-> [j \in 1..Prod(BandShape(data.shape, s)) |->
               data.im[((j - 1) % Len(data.im)) + 1] + s]]
Analysis(data, nb_scale) == [s \in 1..nb_scale |-> Band(data, s)]

\* transform.synthesis(): the image rebuilt from the first (full size) band.
Synthesis(bundle) ==
    [shape |-> bundle[1].shape,
     re |-> [j \in 1..Len(bundle[1].re) |-> bundle[1].re[j] - 1],
     im |-> [j \in 1..Len(bundle[1].im) |-> bundle[1].im[j] - 1]]

\* ------------------------------------------------------------- l2norm
\* A variant of L2Shape that leaves odd axes as they are.
L2ShapeNoRounding(shape) == shape
\* shape += shape % 2
L2Shape(shape) == [a \in 1..Len(shape) |-> shape[a] + (shape[a] % 2)]

\* The row-major position (from 1) of the element at index idx.
RECURSIVE Ravel(_, _)
Ravel(shape, idx) ==
    IF shape = << >> THEN 1
    ELSE Head(idx) * Prod(Tail(shape)) + Ravel(Tail(shape), Tail(idx))

\* fake_data = np.zeros(shape); fake_data[tuple(zip(shape // 2))] = 1
L2Centre(shape) == [a \in 1..Len(shape) |-> shape[a] \div 2]
FakeData(shape) ==
    [shape |-> shape,
     re |-> [i \in 1..Prod(shape) |->
               IF i = Ravel(shape, L2Centre(shape)) THEN 1 ELSE 0],
     im |-> Zeros(Prod(shape))]

\* np.linalg.norm(data), kept as its square: the sum of |x|^2.
RECURSIVE SumSq(_)
SumSq(s) == IF s = << >> THEN 0 ELSE Head(s) * Head(s) + SumSq(Tail(s))
Norm2(vec) == SumSq(vec.re) + SumSq(vec.im)

\* --------------------------------------------- modopt filters, convolution
\* get_mr_filters(shape, opt, coarse=True): the filter bank is the transform of
\* an impulse of that shape, so banks made from different shapes differ.
GetMrFilters(shape, opt) == [shape |-> shape, opt |-> opt]
FilterWeight(s, tr) == s + Prod(tr.shape) + tr.opt[1]

\* filter_convolve(data, filters): one output per scale, each of data's shape.
FilterConvolve(a, tr) ==
    [shape |-> <<tr.opt[2]>> \o a.shape,
     re |-> [k \in 1..(tr.opt[2] * Len(a.re)) |->
               FilterWeight(((k - 1) \div Len(a.re)) + 1, tr)
                 * a.re[((k - 1) % Len(a.re)) + 1]],
     im |-> [k \in 1..(tr.opt[2] * Len(a.im)) |->
               FilterWeight(((k - 1) \div Len(a.im)) + 1, tr)
                 * a.im[((k - 1) % Len(a.im)) + 1]]]
\* modopt's convolve refuses data and kernel of different dimensions.
ConvolveRaises(a, tr) == Len(a.shape) # Len(tr.shape)

\* np.squeeze of the one-leaf list unflatten returns: the axes of length 1 go.
Squeeze(bundle) ==
    [shape |-> SelectSeq(<<1>> \o bundle[1].shape, LAMBDA d : d # 1),
     re |-> bundle[1].re, im |-> bundle[1].im]

Min(a, b) == IF a < b THEN a ELSE b
RECURSIVE SumTo(_, _)
SumTo(f, n) == IF n = 0 THEN 0 ELSE f[n] + SumTo(f, n - 1)

\* filter_convolve(data, filters, filter_rot=True): the sum over the paired
\* (scale of data, rotated filter) of their convolutions.
AdjConvolveRaises(x, tr) == x.shape = << >> \/ Len(x.shape) - 1 # Len(tr.shape)
AdjConvolve(x, tr) ==
    LET m == Prod(Tail(x.shape))
        pairs == Min(Head(x.shape), tr.opt[2])
    IN [shape |-> Tail(x.shape),
        re |-> [i \in 1..m |->
                  SumTo([s \in 1..pairs |->
                           FilterWeight(s, tr) * x.re[(s - 1) * m + i]], pairs)],
        im |-> Zeros(m)]

\* ------------------------------------------------------------------ state
VARIABLES
    kind,             \* the class of the operator under study
    n_ready,          \* WaveletN: __init__ returned an instance
    n_nb_scale,       \* WaveletN.nb_scale
    n_loaded,         \* the names pysap.load_transform was called with
    n_coeffs_shape,   \* WaveletN.coeffs_shape
    n_analysis_data,  \* WaveletN.transform.analysis_data
    ud_multichannel,  \* WaveletUD2.multichannel
    ud_opt,           \* WaveletUD2._opt: <<wavelet_id, nb_scale>>
    ud_has_run,       \* WaveletUD2._has_run
    ud_transform,     \* WaveletUD2.transform (None: the attribute is not set)
    ud_coeffs_shape,  \* WaveletUD2.coeffs_shape
    last,             \* the last call: its name, argument and outcome
    n_lastop,         \* history: vector, bundle, descriptor of the last op that returned
    done_desc,        \* history: the descriptor the last op that returned produced
    ud_first,         \* history: the spatial shape of the first WaveletUD2.op call's input
    ud_nfilters,      \* history: the get_mr_filters calls that returned (capped at 2)
    c_lock,           \* concurrent callers: the callers serialise their calls
    c_pc,             \* concurrent callers: where each caller is in its call
    c_loc,            \* concurrent callers: the locals of each caller's call
    c_heap,           \* the list objects op created that are still referenced
    c_cur,            \* the list coeffs_shape is bound to (0: None)
    c_want,           \* history: per list, the channels of the op call that created it
    c_raised,         \* history: a call of a concurrent caller raised in a collaborator
    c_res             \* concurrent callers: the outcome of each caller's last call

nVars == <<n_ready, n_nb_scale, n_loaded, n_coeffs_shape, n_analysis_data, n_lastop>>
udState == <<ud_has_run, ud_transform, ud_coeffs_shape>>
udConf == <<ud_multichannel, ud_opt>>
udVars == <<udConf, udState, ud_first, ud_nfilters>>
cVars == <<c_lock, c_pc, c_loc, c_heap, c_cur, c_want, c_raised, c_res>>
vars == <<kind, nVars, udVars, last, done_desc, cVars>>

Threads == {1, 2}
\* A list is alive while coeffs_shape is bound to it or a running adj_op call
\* holds it in its zip: one slot for each of these.
Slots == 1..(Cardinality(Threads) + 1)
NoLocals(calls) == [calls |-> calls, n |-> 0, spatial |-> << >>, k |-> 0, list |-> 0]
NoResult ==
    [op |-> "none", err |-> "", given |-> 0, images |-> 0, want |-> 0,
     cur |-> FALSE, busy |-> {}]
CInitLocals ==
    /\ c_pc = [t \in Threads |-> "idle"]
    /\ c_loc = [t \in Threads |-> NoLocals(0)]
    /\ c_heap = [s \in Slots |-> << >>]
    /\ c_cur = 0
    /\ c_want = [s \in Slots |-> 0]
    /\ c_raised = FALSE
    /\ c_res = [t \in Threads |-> NoResult]

Call(op, arg, err, val, inner, used) ==
    [op |-> op, arg |-> arg, err |-> err, val |-> val, inner |-> inner, used |-> used]

Init ==
    /\ kind \in {"WaveletN", "WaveletUD2"}
    /\ n_ready = FALSE
    /\ n_nb_scale = 0
    /\ n_loaded = {}
    /\ n_coeffs_shape = None
    /\ n_analysis_data = None
    /\ ud_multichannel \in BOOLEAN
    /\ ud_opt = <<1, MaxScale>>
    /\ ud_has_run = FALSE
    /\ ud_transform = None
    /\ ud_coeffs_shape = None
    /\ last = Call("none", << >>, "", << >>, << >>, None)
    /\ n_lastop = None
    /\ done_desc = None
    /\ ud_first = None
    /\ ud_nfilters = 0
    /\ c_lock = TRUE
    /\ CInitLocals

\* ---------------------------------------------------------------- WaveletN
\* A variant of NInitRaises without the registry test.
NInitRaisesNever(name) == FALSE
\* __init__: the name is looked up in the registry before anything is loaded.
NInitRaises(name) == name \notin AVAILABLE_TRANSFORMS

NInit(name, nb_scale) ==
    /\ kind = "WaveletN" /\ ~n_ready
    /\ IF NInitRaises(name)
       THEN /\ last' = Call("N.__init__", name, "ValueError", << >>, << >>, None)
            /\ UNCHANGED <<n_ready, n_nb_scale, n_loaded, n_coeffs_shape>>
       ELSE /\ n_loaded' = n_loaded \cup {name}
            /\ n_ready' = TRUE
            /\ n_nb_scale' = nb_scale
            /\ n_coeffs_shape' = None
            /\ last' = Call("N.__init__", name, "", << >>, << >>, None)
    /\ UNCHANGED <<kind, n_analysis_data, n_lastop, done_desc, udVars, cVars>>

NGetCoeff ==
    /\ kind = "WaveletN" /\ n_ready
    /\ last' = Call("N.get_coeff", << >>, "", n_analysis_data, << >>, None)
    /\ UNCHANGED <<kind, nVars, udVars, done_desc, cVars>>

NSetCoeff(bundle) ==
    /\ kind = "WaveletN" /\ n_ready
    /\ n_analysis_data' = Some(bundle)
    /\ last' = Call("N.set_coeff", bundle, "", << >>, << >>, None)
    /\ UNCHANGED <<kind, n_ready, n_nb_scale, n_loaded, n_coeffs_shape, n_lastop,
                   done_desc, udVars, cVars>>

\* A variant of NOpDescriptor that keeps a descriptor once it is cached.
NOpDescriptorKeepFirst(old, flat) == IF old = None THEN Some(flat.shape) ELSE old
\* op, lines 72-77. ok = FALSE: the backend's analysis raises.
NOpDescriptor(old, flat) == Some(flat.shape)
NOpOutcome(data, ok) ==
    IF ok THEN [err |-> "", val |-> Flatten(Analysis(data, n_nb_scale)).vec]
    ELSE [err |-> "AnalysisError", val |-> << >>]
NOpEffect(data, ok) ==
    IF ok
    THEN LET bundle == Analysis(data, n_nb_scale)
             flat == Flatten(bundle)
         IN /\ n_analysis_data' = Some(bundle)
            /\ n_coeffs_shape' = NOpDescriptor(n_coeffs_shape, flat)
            /\ n_lastop' = Some([vec |-> flat.vec, bundle |-> bundle])
            /\ done_desc' = Some(flat.shape)
    ELSE UNCHANGED <<n_analysis_data, n_coeffs_shape, n_lastop, done_desc>>

NOp(data, ok) ==
    /\ kind = "WaveletN" /\ n_ready
    /\ NOpEffect(data, ok)
    /\ last' = Call("N.op", data, NOpOutcome(data, ok).err, NOpOutcome(data, ok).val,
                    << >>, None)
    /\ UNCHANGED <<kind, n_ready, n_nb_scale, n_loaded, udVars, cVars>>

\* adj_op, lines 97-101: no test of coeffs_shape; unflatten gets it as it is,
\* and cannot go through a descriptor that is None.
NAdjUnflatten(coeffs) ==
    IF n_coeffs_shape = None THEN [err |-> "TypeError", val |-> << >>]
    ELSE Unflatten(coeffs, n_coeffs_shape[1])

NAdjOp(coeffs, dtype) ==
    /\ kind = "WaveletN" /\ n_ready
    /\ LET u == NAdjUnflatten(coeffs)
       IN IF u.err # ""
          THEN /\ last' = Call("N.adj_op", coeffs, u.err, << >>, << >>,
                               Some(n_coeffs_shape))
               /\ UNCHANGED n_analysis_data
          ELSE /\ n_analysis_data' = Some(u.val)
               /\ last' = Call("N.adj_op", coeffs, "",
                               [type |-> IF dtype = "array" THEN "ndarray" ELSE "Image",
                                data |-> Synthesis(u.val)],
                               << >>, Some(n_coeffs_shape))
    /\ UNCHANGED <<kind, n_ready, n_nb_scale, n_loaded, n_coeffs_shape, n_lastop,
                   done_desc, udVars, cVars>>

\* l2norm, lines 116-126
NL2norm(shape, ok) ==
    /\ kind = "WaveletN" /\ n_ready
    /\ LET fake_data == FakeData(L2Shape(shape))
           out == NOpOutcome(fake_data, ok)
       IN /\ NOpEffect(fake_data, ok)
          /\ last' = Call("N.l2norm", shape, out.err,
                          IF out.err = "" THEN Norm2(out.val) ELSE << >>,
                          <<fake_data>>, None)
    /\ UNCHANGED <<kind, n_ready, n_nb_scale, n_loaded, udVars, cVars>>

\* The coefficient vectors handed to adj_op: of the lengths op returns for
\* the model's inputs, and one that fits no descriptor.
NCoefLens == {Len(Flatten(Analysis(d, MaxScale)).vec.re) : d \in Inputs}
NCoefInputs ==
    {MkArray(<<n>>) : n \in NCoefLens \cup {1}}
        \cup {n_lastop[i].vec : i \in 1..Len(n_lastop)}
NBundles ==
    {Analysis(MkArray(s), MaxScale) : s \in {<<MaxDim - 1>>, <<MaxLead, MaxDim>>}}

NNext ==
    \/ \E name \in WaveletNames : NInit(name, MaxScale)
    \/ NGetCoeff
    \/ \E b \in NBundles : NSetCoeff(b)
    \/ \E d \in Inputs, ok \in BOOLEAN : NOp(d, ok)
    \/ \E c \in NCoefInputs, dtype \in {"array", "image"} : NAdjOp(c, dtype)
    \/ \E s \in NormShapes, ok \in BOOLEAN : NL2norm(s, ok)

\* -------------------------------------------------------------- WaveletUD2
\* lines 186-189: the shape the filters are made from
UDSpatial(multichannel, shape) == IF multichannel THEN Tail(shape) ELSE shape
\* A variant of UDNeedsFilters that makes the filters anew in every op call.
UDNeedsFiltersAlways(has_run) == TRUE
\* line 185
UDNeedsFilters(has_run) == ~has_run
\* data[channel], channels counted from 1
Channel(data, c) ==
    LET m == Prod(Tail(data.shape))
    IN [shape |-> Tail(data.shape),
        re |-> SubSeq(data.re, (c - 1) * m + 1, c * m),
        im |-> SubSeq(data.im, (c - 1) * m + 1, c * m)]
\* A variant of UDChannelCoeffs that convolves the real part twice.
UDChannelCoeffsRealTwice(ch, tr) ==
    LET coefs_real == Flatten(<<FilterConvolve(Real(ch), tr)>>)
        coefs_imag == Flatten(<<FilterConvolve(Real(ch), tr)>>)
    IN [vec |-> AddJ(coefs_real.vec, coefs_imag.vec), shape |-> coefs_imag.shape]
\* lines 194-198: one channel of the multichannel branch
UDChannelCoeffs(ch, tr) ==
    LET coefs_real == Flatten(<<FilterConvolve(Real(ch), tr)>>)
        coefs_imag == Flatten(<<FilterConvolve(Imag(ch), tr)>>)
    IN [vec |-> AddJ(coefs_real.vec, coefs_imag.vec), shape |-> coefs_imag.shape]
\* lines 202-205: the single-channel branch
UDSingleCoeffs(data, tr) ==
    Flatten(<<AddJ(FilterConvolve(Real(data), tr), FilterConvolve(Imag(data), tr))>>)

\* lines 191-200. stop: the channels convolved before a convolution raises
\* (all of them when none does).
UDMultiRun(data, tr, stop) ==
    LET done == [c \in 1..stop |-> UDChannelCoeffs(Channel(data, c), tr)]
    IN [err |-> IF stop < Head(data.shape) THEN "ConvolveError" ELSE "",
        val |-> IF stop < Head(data.shape) THEN << >>
                ELSE [c \in 1..stop |-> done[c].vec],
        coeffs_shape |-> Some([c \in 1..stop |-> done[c].shape])]
\* lines 202-206
UDSingleRun(data, tr, stop) ==
    IF stop = 0
    THEN [err |-> "ConvolveError", val |-> << >>, coeffs_shape |-> ud_coeffs_shape]
    ELSE [err |-> "", val |-> UDSingleCoeffs(data, tr).vec,
          coeffs_shape |-> Some(UDSingleCoeffs(data, tr).shape)]

\* op, lines 185-206: the outcome and the fields after the call.
\* filters_ok = FALSE: get_mr_filters raises; fail_at: the first convolution
\* (counted in channels, from 0) that raises.
UDOpRun(data, filters_ok, fail_at) ==
    IF UDNeedsFilters(ud_has_run) /\ ~filters_ok
    THEN [err |-> "FiltersError", val |-> << >>, computed |-> FALSE,
          has_run |-> ud_has_run, transform |-> ud_transform,
          coeffs_shape |-> ud_coeffs_shape]
    ELSE LET computed == UDNeedsFilters(ud_has_run)
             tr == IF computed
                   THEN GetMrFilters(UDSpatial(ud_multichannel, data.shape), ud_opt)
                   ELSE ud_transform[1]
             n == IF ud_multichannel THEN Head(data.shape) ELSE 1
             first == IF ud_multichannel THEN Channel(data, 1) ELSE data
             stop == IF ConvolveRaises(first, tr) THEN 0 ELSE Min(fail_at, n)
             run == IF ud_multichannel THEN UDMultiRun(data, tr, stop)
                    ELSE UDSingleRun(data, tr, stop)
         IN [err |-> run.err, val |-> run.val, computed |-> computed,
             has_run |-> IF computed THEN TRUE ELSE ud_has_run,
             transform |-> Some(tr), coeffs_shape |-> run.coeffs_shape]

UDOpEffect(data, out) ==
    /\ ud_has_run' = out.has_run
    /\ ud_transform' = out.transform
    /\ ud_coeffs_shape' = out.coeffs_shape
    /\ ud_first' = IF ud_first = None
                   THEN Some(UDSpatial(ud_multichannel, data.shape)) ELSE ud_first
    /\ ud_nfilters' = IF out.computed THEN Min(2, ud_nfilters + 1) ELSE ud_nfilters
    /\ done_desc' = IF out.err = "" THEN out.coeffs_shape ELSE done_desc

UDOp(data, filters_ok, fail_at) ==
    /\ kind = "WaveletUD2"
    /\ \E out \in {UDOpRun(data, filters_ok, fail_at)} :
          /\ UDOpEffect(data, out)
          /\ last' = Call("UD.op", data, out.err, out.val, << >>, None)
    /\ UNCHANGED <<kind, nVars, udConf, cVars>>

\* A variant of UDAdjNotReady without the test.
UDAdjNotReadyNever(has_run) == FALSE
\* line 226
UDAdjNotReady(has_run) == ~has_run

\* lines 234-242 and 245-251: one vector back to an image
UDAdjChannel(vec, desc, tr) ==
    LET ur == Unflatten(Real(vec), desc)
        ui == Unflatten(Imag(vec), desc)
    IN IF ur.err # "" THEN [err |-> ur.err, val |-> << >>]
       ELSE IF AdjConvolveRaises(Squeeze(ur.val), tr)
       THEN [err |-> "ConvolveError", val |-> << >>]
       ELSE [err |-> "",
             val |-> AddJ(AdjConvolve(Squeeze(ur.val), tr),
                          AdjConvolve(Squeeze(ui.val), tr))]

\* lines 231-243: zip pairs the channels of coefs with the cached descriptors
\* and stops at the shorter of the two.
UDAdjMulti(coefs, descs, tr) ==
    LET pairs == Min(Len(coefs), Len(descs))
        r == [c \in 1..pairs |-> UDAdjChannel(coefs[c], descs[c], tr)]
        bad == {c \in 1..pairs : r[c].err # ""}
    IN IF bad # {}
       THEN [err |-> r[CHOOSE c \in bad : \A b \in bad : c <= b].err, val |-> << >>]
       ELSE [err |-> "", val |-> [c \in 1..pairs |-> r[c].val]]

\* adj_op, lines 226-251. A descriptor that is still None cannot be gone through.
UDAdjRun(coefs) ==
    IF UDAdjNotReady(ud_has_run)
    THEN [err |-> "RuntimeError", val |-> << >>, used |-> None]
    ELSE IF ud_coeffs_shape = None
    THEN [err |-> "TypeError", val |-> << >>, used |-> Some(ud_coeffs_shape)]
    ELSE LET r == IF ud_multichannel
                  THEN UDAdjMulti(coefs, ud_coeffs_shape[1], ud_transform[1])
                  ELSE UDAdjChannel(coefs, ud_coeffs_shape[1], ud_transform[1])
         IN [err |-> r.err, val |-> r.val, used |-> Some(ud_coeffs_shape)]

UDAdjOp(coefs) ==
    /\ kind = "WaveletUD2"
    /\ \E out \in {UDAdjRun(coefs)} :
          last' = Call("UD.adj_op", coefs, out.err, out.val, << >>, out.used)
    /\ UNCHANGED <<kind, nVars, udVars, done_desc, cVars>>

\* l2norm, lines 264-274
UDL2norm(shape, filters_ok, fail_at) ==
    /\ kind = "WaveletUD2"
    /\ \E fake_data \in {FakeData(L2Shape(shape))} :
       \E out \in {UDOpRun(fake_data, filters_ok, fail_at)} :
          /\ UDOpEffect(fake_data, out)
          /\ last' = Call("UD.l2norm", shape, out.err,
                          IF out.err # "" THEN << >>
                          ELSE IF ud_multichannel
                          THEN SumTo([c \in 1..Len(out.val) |-> Norm2(out.val[c])],
                                     Len(out.val))
                          ELSE Norm2(out.val),
                          <<fake_data>>, None)
    /\ UNCHANGED <<kind, nVars, udConf, cVars>>

\* The coefficients handed to adj_op: vectors of the lengths op returns for
\* the model's shapes, and one that fits no descriptor; for a multichannel
\* operator, stacks of such vectors: fewer than, as many as and more than the
\* channels of an input.
UDCoefLens ==
    {ud_opt[2] * Prod(UDSpatial(ud_multichannel, s)) : s \in DataShapes} \cup {1}
UDCoefVectors == {MkArray(<<n>>) : n \in UDCoefLens}
UDCoefInputs ==
    IF ud_multichannel
    THEN {[c \in 1..k |-> x] : k \in (MaxLead - 1)..(MaxLead + 1), x \in UDCoefVectors}
    ELSE UDCoefVectors
\* The outcomes of the collaborators that matter to a call.
FilterOutcomes == IF ud_has_run THEN {TRUE} ELSE BOOLEAN
FailPoints(shape) == {0, 1, IF ud_multichannel THEN Head(shape) ELSE 1}

UDNext ==
    \/ \E d \in Inputs, f \in FilterOutcomes :
          \E at \in FailPoints(d.shape) : UDOp(d, f, at)
    \/ \E c \in UDCoefInputs : UDAdjOp(c)
    \/ \E s \in NormShapes, f \in FilterOutcomes :
          \E at \in FailPoints(L2Shape(s)) : UDL2norm(s, f, at)

Next == NNext \/ UDNext

Spec == Init /\ [][Next]_vars

\* ------------------------------------------- two callers on one WaveletUD2
\* One multichannel WaveletUD2 shared by two callers whose op and adj_op calls
\* run statement by statement. With c_lock the callers serialise their calls:
\* a call begins only when no other call is under way.
CFrame == <<kind, nVars, udConf, ud_first, ud_nfilters, last, done_desc, c_lock>>
CMayBegin(t) ==
    /\ c_pc[t] = "idle"
    /\ c_loc[t].calls < MaxThreadCalls
    /\ c_lock => \A u \in Threads : c_pc[u] = "idle"
CGoto(t, label) == c_pc' = [c_pc EXCEPT ![t] = label]
\* The call of t is over: its locals are gone, res is what its caller sees.
CReturn(t, res) ==
    /\ c_pc' = [c_pc EXCEPT ![t] = "idle"]
    /\ c_loc' = [c_loc EXCEPT ![t] = NoLocals(@.calls)]
    /\ c_res' = [c_res EXCEPT ![t] = res]
COpResult(t, err) ==
    [NoResult EXCEPT !.op = "op", !.err = err, !.given = c_loc[t].n]
\* busy: the callers whose op call is between its reset and its last append.
CAdjResult(t, err, images) ==
    [op |-> "adj_op", err |-> err, given |-> c_loc[t].n, images |-> images,
     want |-> IF c_loc[t].list = 0 THEN 0 ELSE c_want[c_loc[t].list],
     cur |-> c_loc[t].list # 0 /\ c_loc[t].list = c_cur,
     busy |-> {u \in Threads : c_pc[u] = "op_loop" /\ c_loc[u].k < c_loc[u].n}]
\* A caller other than t holds list s in the zip of its adj_op call.
Held(s, t) == \E u \in Threads \ {t} : c_pc[u] = "adj_loop" /\ c_loc[u].list = s

ConcInit ==
    /\ kind = "Concurrent"
    /\ n_ready = FALSE
    /\ n_nb_scale = 0
    /\ n_loaded = {}
    /\ n_coeffs_shape = None
    /\ n_analysis_data = None
    /\ ud_multichannel = TRUE
    /\ ud_opt = <<1, MaxScale>>
    /\ ud_has_run = FALSE
    /\ ud_transform = None
    /\ ud_coeffs_shape = None
    /\ last = Call("none", << >>, "", << >>, << >>, None)
    /\ n_lastop = None
    /\ done_desc = None
    /\ ud_first = None
    /\ ud_nfilters = 0
    /\ c_lock \in BOOLEAN
    /\ CInitLocals

\* op(data) is called: data has shape[0] channels of the spatial shape shape[1:]
CBeginOp(t, shape) ==
    /\ CMayBegin(t)
    /\ c_loc' = [c_loc EXCEPT ![t] = [calls |-> @.calls + 1, n |-> Head(shape),
                                      spatial |-> Tail(shape), k |-> 0, list |-> 0]]
    /\ c_res' = [c_res EXCEPT ![t] = NoResult]
    /\ CGoto(t, "op_check")
    /\ UNCHANGED <<CFrame, udState, c_heap, c_cur, c_want, c_raised>>

\* line 185
COpCheck(t) ==
    /\ c_pc[t] = "op_check"
    /\ CGoto(t, IF UDNeedsFilters(ud_has_run) THEN "op_filters" ELSE "op_reset")
    /\ UNCHANGED <<CFrame, udState, c_loc, c_heap, c_cur, c_want, c_raised, c_res>>

\* lines 163-167
COpFilters(t) ==
    /\ c_pc[t] = "op_filters"
    /\ ud_transform' = Some(GetMrFilters(c_loc[t].spatial, ud_opt))
    /\ CGoto(t, "op_flag")
    /\ UNCHANGED <<CFrame, ud_has_run, ud_coeffs_shape, c_loc, c_heap, c_cur, c_want,
                   c_raised, c_res>>

\* line 168
COpFlag(t) ==
    /\ c_pc[t] = "op_flag"
    /\ ud_has_run' = TRUE
    /\ CGoto(t, "op_reset")
    /\ UNCHANGED <<CFrame, ud_transform, ud_coeffs_shape, c_loc, c_heap, c_cur, c_want,
                   c_raised, c_res>>

\* line 192: coeffs_shape is bound to a new, empty list; the list it was bound
\* to is gone unless an adj_op call still holds it
COpReset(t) ==
    /\ c_pc[t] = "op_reset"
    /\ LET free == {s \in Slots : s # c_cur /\ ~Held(s, t)}
           new == CHOOSE s \in free : \A r \in free : s <= r
           gone == {s \in Slots : s = c_cur /\ ~Held(s, t)}
       IN /\ c_heap' = [s \in Slots |-> IF s \in gone \cup {new} THEN << >> ELSE c_heap[s]]
          /\ c_want' = [s \in Slots |-> IF s = new THEN c_loc[t].n
                                        ELSE IF s \in gone THEN 0 ELSE c_want[s]]
          /\ c_cur' = new
    /\ ud_coeffs_shape' = Some(<< >>)
    /\ CGoto(t, "op_loop")
    /\ UNCHANGED <<CFrame, ud_has_run, ud_transform, c_loc, c_raised, c_res>>

\* A variant of COpLoopDone that leaves the loop one channel early.
COpLoopDoneEarly(k, n) == k >= n - 1
\* line 193: the loop over range(data.shape[0]) is over
COpLoopDone(k, n) == k = n

\* lines 194-199: one channel is convolved and its descriptor appended to the
\* list coeffs_shape is bound to at that moment
COpChannel(t) ==
    /\ c_pc[t] = "op_loop"
    /\ ~COpLoopDone(c_loc[t].k, c_loc[t].n)
    /\ ~ConvolveRaises(MkArray(c_loc[t].spatial), ud_transform[1])
    /\ LET desc == UDChannelCoeffs(MkArray(c_loc[t].spatial), ud_transform[1]).shape
       IN /\ c_heap' = [c_heap EXCEPT ![c_cur] = Append(@, desc)]
          /\ ud_coeffs_shape' = Some(Append(c_heap[c_cur], desc))
    /\ c_loc' = [c_loc EXCEPT ![t].k = @ + 1]
    /\ UNCHANGED <<CFrame, ud_has_run, ud_transform, c_pc, c_cur, c_want, c_raised, c_res>>

\* lines 194-197: a convolution raises and op ends there
COpRaise(t) ==
    /\ c_pc[t] = "op_loop"
    /\ ~COpLoopDone(c_loc[t].k, c_loc[t].n)
    /\ c_raised' = TRUE
    /\ CReturn(t, COpResult(t, "ConvolveError"))
    /\ UNCHANGED <<CFrame, udState, c_heap, c_cur, c_want>>

\* line 200
COpReturn(t) ==
    /\ c_pc[t] = "op_loop"
    /\ COpLoopDone(c_loc[t].k, c_loc[t].n)
    /\ CReturn(t, COpResult(t, ""))
    /\ UNCHANGED <<CFrame, udState, c_heap, c_cur, c_want, c_raised>>

\* adj_op(coefs) is called: coefs has n rows, each of the length op returns for
\* a channel of the given spatial shape
CBeginAdj(t, n, spatial) ==
    /\ CMayBegin(t)
    /\ c_loc' = [c_loc EXCEPT ![t] = [calls |-> @.calls + 1, n |-> n,
                                      spatial |-> spatial, k |-> 0, list |-> 0]]
    /\ c_res' = [c_res EXCEPT ![t] = NoResult]
    /\ CGoto(t, "adj_check")
    /\ UNCHANGED <<CFrame, udState, c_heap, c_cur, c_want, c_raised>>

\* lines 226-229
CAdjCheck(t) ==
    /\ c_pc[t] = "adj_check"
    /\ IF UDAdjNotReady(ud_has_run)
       THEN CReturn(t, CAdjResult(t, "RuntimeError", 0))
       ELSE CGoto(t, "adj_zip") /\ UNCHANGED <<c_loc, c_res>>
    /\ UNCHANGED <<CFrame, udState, c_heap, c_cur, c_want, c_raised>>

\* lines 232-233: zip takes the list coeffs_shape is bound to; None is no list
CAdjZip(t) ==
    /\ c_pc[t] = "adj_zip"
    /\ IF c_cur = 0
       THEN CReturn(t, CAdjResult(t, "TypeError", 0))
       ELSE /\ c_loc' = [c_loc EXCEPT ![t].list = c_cur]
            /\ CGoto(t, "adj_loop")
            /\ UNCHANGED c_res
    /\ UNCHANGED <<CFrame, udState, c_heap, c_cur, c_want, c_raised>>

\* adj_op ends and lets go of the list its zip held
CAdjLeave(t, res) ==
    /\ CReturn(t, res)
    /\ LET gone == {s \in Slots : s = c_loc[t].list /\ s # c_cur /\ ~Held(s, t)}
       IN /\ c_heap' = [s \in Slots |-> IF s \in gone THEN << >> ELSE c_heap[s]]
          /\ c_want' = [s \in Slots |-> IF s \in gone THEN 0 ELSE c_want[s]]

\* lines 232-243: zip gives the next (channel, descriptor) pair, which is turned
\* into an image, or is exhausted, and adj_op returns the images it has
CAdjNext(t) ==
    /\ c_pc[t] = "adj_loop"
    /\ LET k == c_loc[t].k
           descs == c_heap[c_loc[t].list]
           out == UDAdjChannel(MkArray(<<ud_opt[2] * Prod(c_loc[t].spatial)>>),
                               descs[k + 1], ud_transform[1])
       IN IF k < Min(c_loc[t].n, Len(descs))
          THEN IF out.err # ""
               THEN CAdjLeave(t, CAdjResult(t, out.err, k))
               ELSE /\ c_loc' = [c_loc EXCEPT ![t].k = k + 1]
                    /\ UNCHANGED <<c_pc, c_res, c_heap, c_want>>
          ELSE CAdjLeave(t, CAdjResult(t, "", k))
    /\ UNCHANGED <<CFrame, udState, c_cur, c_raised>>

\* The inputs of the concurrent callers.
CShapes == {<<MaxLead, MaxDim>>}
CSpatials == {Tail(s) : s \in CShapes}

ConcNext ==
    \E t \in Threads :
        \/ \E s \in CShapes : CBeginOp(t, s)
        \/ COpCheck(t)
        \/ COpFilters(t)
        \/ COpFlag(t)
        \/ COpReset(t)
        \/ COpChannel(t)
        \/ COpRaise(t)
        \/ COpReturn(t)
        \/ \E n \in (MaxLead - 1)..(MaxLead + 1), sp \in CSpatials : CBeginAdj(t, n, sp)
        \/ CAdjCheck(t)
        \/ CAdjZip(t)
        \/ CAdjNext(t)

ConcSpec == ConcInit /\ [][ConcNext]_vars

\* ------------------------------------------------------------------ claims
UDOps == {"UD.op", "UD.l2norm"}
\* The array the op call of the last call was given.
OpData(l) == IF l.op \in {"N.op", "UD.op"} THEN l.arg ELSE l.inner[1]
\* The index, axis by axis, of the element at row-major position i (from 1).
Unravel(shape, i) ==
    [a \in 1..Len(shape) |->
        ((i - 1) \div Prod(SubSeq(shape, a + 1, Len(shape)))) % shape[a]]

\* C1: on a WaveletUD2 on which op was never called (directly or through
\* l2norm), every adj_op call raises the not-ready RuntimeError and leaves
\* _has_run false, coeffs_shape None and the filters absent.
C1_AdjOpBeforeOpRaises ==
    [][(kind = "WaveletUD2" /\ ud_first = None /\ last'.op = "UD.adj_op")
          => /\ last'.err = "RuntimeError"
             /\ UNCHANGED udState
             /\ ~ud_has_run' /\ ud_coeffs_shape' = None /\ ud_transform' = None]_vars
C1_Witness ==
    /\ kind = "WaveletUD2" /\ ud_multichannel /\ ud_first = None
    /\ last.op = "UD.adj_op" /\ last.err = "RuntimeError" /\ Len(last.arg) > 1

\* C2 (as stated): WaveletN.adj_op called while coeffs_shape is still None
\* raises StaleStateError from a test of its own, made before unflatten is called.
C2_StaleStateErrorRaised ==
    (kind = "WaveletN" /\ last.op = "N.adj_op" /\ n_coeffs_shape = None)
        => (last.err = "StaleStateError" /\ last.used = None)

\* C3 (as stated): once an op call was made, the filters are there, computed
\* once, from the spatial shape of the first op call's input.
C3_FiltersFromFirstOpCall ==
    (kind = "WaveletUD2" /\ ud_first # None)
        => /\ ud_has_run
           /\ ud_nfilters = 1
           /\ ud_transform = Some(GetMrFilters(ud_first[1], ud_opt))
\* C3 (amended): the filters are computed at most once, in the first op call
\* whose get_mr_filters returns, from the spatial shape of that call's input
\* (the whole shape, or the shape without its leading axis when multichannel);
\* an op call in which get_mr_filters raises leaves the operator not ready;
\* once ready it stays ready and its filters are never replaced.
C3_FiltersComputedOnce ==
    /\ [](kind = "WaveletUD2" =>
            /\ ud_nfilters <= 1
            /\ ud_has_run <=> ud_nfilters = 1
            /\ ud_has_run <=> ud_transform # None
            /\ (last.op \in UDOps /\ last.err # "FiltersError") => ud_has_run
            /\ (last.op \in UDOps /\ last.err = "FiltersError") => ~ud_has_run)
    /\ [][kind = "WaveletUD2" =>
            /\ ud_has_run => (ud_has_run' /\ ud_transform' = ud_transform)
            /\ (~ud_has_run /\ ud_has_run') =>
                  /\ last'.op \in UDOps
                  /\ ud_transform' =
                        Some([shape |-> IF ud_multichannel
                                        THEN Tail(OpData(last').shape)
                                        ELSE OpData(last').shape,
                              opt |-> ud_opt])]_vars
C3_Witness ==
    /\ kind = "WaveletUD2" /\ ud_has_run /\ ~ud_multichannel
    /\ ud_first[1] # ud_transform[1].shape
    /\ last.op = "UD.op" /\ last.err = ""
    /\ last.arg.shape # ud_transform[1].shape

\* C4: WaveletN.__init__ with a name that is not in the registry raises at
\* once: nothing is loaded for that name and no instance comes out of it.
C4_UnknownNameRejectedAtInit ==
    kind = "WaveletN" =>
        /\ n_loaded \subseteq AVAILABLE_TRANSFORMS
        /\ n_ready => n_loaded # {}
        /\ (last.op = "N.__init__" /\ last.arg \notin AVAILABLE_TRANSFORMS)
              => (last.err = "ValueError" /\ ~n_ready /\ n_loaded = {})
        /\ (last.op = "N.__init__" /\ last.arg \in AVAILABLE_TRANSFORMS)
              => (last.err = "" /\ n_ready)
C4_Witness ==
    kind = "WaveletN" /\ last.op = "N.__init__" /\ last.arg = "nosuch"
        /\ last.err = "ValueError"

\* C5 (as stated): the cached descriptor, and the one adj_op uses, is the one
\* the most recent completed op call produced.
C5_DescriptorOfLastCompletedOp ==
    /\ kind = "WaveletN" => n_coeffs_shape = done_desc
    /\ kind = "WaveletUD2" => ud_coeffs_shape = done_desc
    /\ (last.op \in {"N.adj_op", "UD.adj_op"} /\ last.used # None)
          => last.used[1] = done_desc

\* C6 (as stated): a multichannel op returns, channel by channel, what a new
\* single-channel operator of the same wavelet id and scale count returns for
\* that channel, and caches exactly one descriptor per channel.
C6_EqualsNewSingleChannelOp ==
    (kind = "WaveletUD2" /\ ud_multichannel /\ last.op = "UD.op" /\ last.err = "")
        => /\ Len(last.val) = Head(last.arg.shape)
           /\ ud_coeffs_shape # None
           /\ Len(ud_coeffs_shape[1]) = Head(last.arg.shape)
           /\ \A c \in 1..Head(last.arg.shape) :
                LET ch == Channel(last.arg, c)
                    single == UDSingleCoeffs(ch, GetMrFilters(ch.shape, ud_opt))
                IN /\ last.val[c] = single.vec
                   /\ ud_coeffs_shape[1][c] = single.shape
\* C6 (amended): ... what a single-channel operator holding the same filter
\* bank returns for that channel; exactly one descriptor per channel is cached.
C6_EqualsSingleChannelOpSameFilters ==
    (kind = "WaveletUD2" /\ ud_multichannel /\ last.op = "UD.op" /\ last.err = "")
        => /\ Len(last.val) = Head(last.arg.shape)
           /\ ud_coeffs_shape # None
           /\ Len(ud_coeffs_shape[1]) = Head(last.arg.shape)
           /\ \A c \in 1..Head(last.arg.shape) :
                LET ch == Channel(last.arg, c)
                    single == UDSingleCoeffs(ch, ud_transform[1])
                IN /\ last.val[c] = single.vec
                   /\ ud_coeffs_shape[1][c] = single.shape
C6_Witness ==
    /\ kind = "WaveletUD2" /\ ud_multichannel /\ last.op = "UD.op" /\ last.err = ""
    /\ Head(last.arg.shape) >= 2
    /\ ud_transform[1].shape # Tail(last.arg.shape)
    /\ \E i \in 1..Len(last.val[2].im) : last.val[2].im[i] # 0

\* C7: WaveletN.adj_op on the vector the last op returned hands the backend's
\* synthesis the very bundle analysis produced in that op.
C7_RoundTrip ==
    (kind = "WaveletN" /\ last.op = "N.adj_op" /\ n_lastop # None
        /\ last.arg = n_lastop[1].vec)
        => (last.err = "" /\ n_analysis_data = Some(n_lastop[1].bundle))
C7_Witness ==
    /\ kind = "WaveletN" /\ last.op = "N.adj_op" /\ n_lastop # None
    /\ last.arg = n_lastop[1].vec
    /\ Len(n_analysis_data[1]) >= 2
    /\ Len(n_analysis_data[1][1].shape) = 2
    /\ n_analysis_data[1][1].shape # n_analysis_data[1][2].shape

\* C8: l2norm calls op once, on zeros of the shape with every odd axis made one
\* longer, but for a single 1 at index (axis length // 2) on every axis, and
\* returns what the norm of op's result is, for odd shapes as for even ones.
C8_L2normImpulse ==
    last.op \in {"N.l2norm", "UD.l2norm"} =>
        LET x == last.inner[1]
        IN /\ Len(last.inner) = 1
           /\ Len(x.shape) = Len(last.arg)
           /\ \A a \in 1..Len(last.arg) :
                x.shape[a] = IF last.arg[a] % 2 = 0 THEN last.arg[a] ELSE last.arg[a] + 1
           /\ Len(x.re) = Prod(x.shape) /\ Len(x.im) = Prod(x.shape)
           /\ \A i \in 1..Prod(x.shape) :
                /\ x.im[i] = 0
                /\ x.re[i] = IF \A a \in 1..Len(x.shape) :
                                   Unravel(x.shape, i)[a] = x.shape[a] \div 2
                             THEN 1 ELSE 0
           /\ last.err = "" => last.val \in Nat
           /\ (last.err = "" /\ kind = "WaveletN") =>
                 /\ n_lastop[1].bundle = Analysis(x, n_nb_scale)
                 /\ last.val = Norm2(n_lastop[1].vec)
           /\ (last.err = "" /\ kind = "WaveletUD2") => done_desc = ud_coeffs_shape
C8_Witness ==
    /\ last.op = "UD.l2norm" /\ last.err = "" /\ Len(last.arg) = 2
    /\ last.arg[1] % 2 = 1 /\ last.val > 0

\* C9: adj_op raises the not-ready error as long as no op call has
\* completed; between calls _has_run implies that coeffs_shape is not None.
C9_ReadyImpliesDescriptor ==
    kind = "WaveletUD2" =>
        /\ ud_has_run => ud_coeffs_shape # None
        /\ (last.op = "UD.adj_op" /\ done_desc = None) => last.err = "RuntimeError"

\* An adj_op call returned, without raising, fewer images than the channels it
\* was given, having paired them with a list that held fewer descriptors than
\* the channels of the op call that created it.
PartialRead(t) ==
    /\ c_res[t].op = "adj_op" /\ c_res[t].err = ""
    /\ c_res[t].images < c_res[t].given
    /\ c_res[t].images < c_res[t].want

====
